---- MODULE Spec2Model ----
(***************************************************************************)
(* Model of the EchoVault desktop shell (app/src-tauri/src/lib.rs):        *)
(* the three invokable commands (check_backend_health, open_external_url,  *)
(* show_notification), the setup closure of run, and the four event        *)
(* routers (tray menu, tray icon, global shortcut, window events).         *)
(***************************************************************************)
EXTENDS Integers, Sequences, FiniteSets

VARIABLES
    phase,          \* "setup" | "running" | "exited" | "panicked"
    setupIn,        \* what the framework answered during the setup closure
    trayBuilt,      \* the tray icon exists and its two routers are installed
    shortcutReady,  \* the shortcut handler is installed and the combination registered
    stderr,         \* lines written by eprintln! and by the panic of .expect
    win,            \* the webview window labelled "main"
    prevWin,        \* history: win as it was when the last handler was entered
    event,          \* history: the last event handed to a handler
    calls,          \* history: framework calls made by the last handler, with their result
    closePrevented, \* the last CloseRequested had api.prevent_close() called on it
    hpc,            \* position of check_backend_health
    apiOutcome,     \* what the network did with the GET on :8000/health
    ollamaOutcome,  \* what the network did with the GET on :11434/api/tags
    api_healthy,
    ollama_healthy,
    probesIssued,   \* history: the requests sent by the current/last invocation
    healthRet,      \* value returned by the last check_backend_health
    urlRet,         \* history: last open_external_url: url, what the OS got, result
    notifRet        \* history: last show_notification: result

shellVars == <<phase, setupIn, trayBuilt, shortcutReady, stderr, win, prevWin,
               event, calls, closePrevented>>
healthVars == <<hpc, apiOutcome, ollamaOutcome, api_healthy, ollama_healthy,
                probesIssued, healthRet>>
cmdVars == <<healthVars, urlRet, notifRet>>
vars == <<shellVars, cmdVars>>

----------------------------------------------------------------------------
(* Literals of the source *)

MsgBackendDown ==
    "Backend API is not running. Please start Docker services with: docker compose up -d"
MsgOllamaDown == "Ollama is not running. Some AI features may be unavailable."
MsgAllRunning == "All services are running"
MsgTrayFailed == "Failed to setup tray"
MsgRunFailed == "error while running tauri application"
MsgUnwrapNone == "called Option::unwrap() on a None value"
ApiUrl == "http://localhost:8000/health"
OllamaUrl == "http://localhost:11434/api/tags"
TimeoutSecs == 5
NewEntryHref == "/new"
ShortcutCombo == "CommandOrControl+Shift+E"

----------------------------------------------------------------------------
(* Inputs the environment can supply *)

NoEvent == [handler |-> "none", kind |-> "-", button |-> "-", state |-> "-"]
MenuIds == {"open", "new_entry", "sep", "quit"}
TrayKinds == {"Click", "DoubleClick", "Enter", "Leave"}
Buttons == {"Left", "Right", "Middle"}
ButtonStates == {"Up", "Down"}
Shortcuts == {ShortcutCombo, "CommandOrControl+Shift+N"}
ShortcutStates == {"Pressed", "Released"}
WindowEvents == {"CloseRequested", "Resized", "Moved", "Focused"}
Locations == {"/", "/entries"}

----------------------------------------------------------------------------
(* The main window: effects of the framework calls the handlers make.      *)
(* A call that fails leaves the window as it was.                          *)

Show(w, ok) == IF ok THEN [w EXCEPT !.visible = TRUE] ELSE w
SetFocus(w, ok) == IF ok THEN [w EXCEPT !.focused = TRUE] ELSE w
Eval(w, ok) == IF ok THEN [w EXCEPT !.location = NewEntryHref] ELSE w
Hide(w, ok) == IF ok THEN [w EXCEPT !.visible = FALSE, !.focused = FALSE] ELSE w
Call(op, ok) == [op |-> op, ok |-> ok]
AllOk(cs) == \A i \in 1..Len(cs) : cs[i].ok
Ops(cs) == [i \in 1..Len(cs) |-> cs[i].op]

----------------------------------------------------------------------------
(* setup_tray: the menu items and the menu are created first (each ?),   *)
(* then the default window icon is unwrapped, then the tray is built (?) *)

setup_tray(menuOk, iconPresent, buildOk) ==
    IF ~menuOk THEN "Err"
    ELSE IF ~iconPresent THEN "panic"
    ELSE IF ~buildOk THEN "Err"
    ELSE "Ok"

(* The setup closure of run followed by .run(..).expect(..) *)
run_setup ==
    /\ phase = "setup"
    /\ \E menuOk, iconPresent, buildOk, pluginOk, registerOk \in BOOLEAN :
        LET tray == setup_tray(menuOk, iconPresent, buildOk)
            afterTray == IF tray = "Err" THEN stderr \cup {MsgTrayFailed} ELSE stderr
        IN  /\ setupIn' = [tray |-> tray, plugin |-> pluginOk, register |-> registerOk]
            /\ IF tray = "panic"
               THEN /\ phase' = "panicked"
                    /\ stderr' = stderr \cup {MsgUnwrapNone}
                    /\ UNCHANGED <<trayBuilt, shortcutReady>>
               ELSE IF ~pluginOk \/ ~registerOk
               THEN \* ? returns the error from the closure; .expect panics
                    /\ phase' = "panicked"
                    /\ stderr' = afterTray \cup {MsgRunFailed}
                    /\ trayBuilt' = (tray = "Ok")
                    /\ UNCHANGED shortcutReady
               ELSE /\ phase' = "running"
                    /\ stderr' = afterTray
                    /\ trayBuilt' = (tray = "Ok")
                    /\ shortcutReady' = TRUE
    /\ UNCHANGED <<win, prevWin, event, calls, closePrevented, cmdVars>>

----------------------------------------------------------------------------
(* Event routers.  Each handler is an operator from the event and the      *)
(* window it finds to what it leaves behind: the window, the framework     *)
(* calls it made (with their results), whether it asked the process to     *)
(* exit, whether it called prevent_close.                                  *)

Out(w, cs, exit, prevented) == [win |-> w, calls |-> cs, exit |-> exit, prevented |-> prevented]

(* on_menu_event as it would be with the calls chained by ?: the first   *)
(* failing call ends the handler                                           *)
on_menu_event_chained(id, w, okShow, okFocus, okEval) ==
    IF id \in {"open", "new_entry"} /\ w.exists /\ ~okShow
    THEN Out(w, <<Call("show", FALSE)>>, FALSE, FALSE)
    ELSE IF id = "open"
    THEN (IF w.exists
          THEN Out(SetFocus(Show(w, okShow), okFocus),
                   <<Call("show", okShow), Call("set_focus", okFocus)>>, FALSE, FALSE)
          ELSE Out(w, <<>>, FALSE, FALSE))
    ELSE IF id = "new_entry"
    THEN (IF w.exists
          THEN Out(Eval(SetFocus(Show(w, okShow), okFocus), okEval),
                   <<Call("show", okShow), Call("set_focus", okFocus),
                     Call("eval", okEval)>>, FALSE, FALSE)
          ELSE Out(w, <<>>, FALSE, FALSE))
    ELSE IF id = "quit" THEN Out(w, <<Call("exit", TRUE)>>, TRUE, FALSE)
    ELSE Out(w, <<>>, FALSE, FALSE)

(* closure given to .on_menu_event *)
on_menu_event(id, w, okShow, okFocus, okEval) ==
    IF id = "open"
    THEN (IF w.exists
          THEN Out(SetFocus(Show(w, okShow), okFocus),
                   <<Call("show", okShow), Call("set_focus", okFocus)>>, FALSE, FALSE)
          ELSE Out(w, <<>>, FALSE, FALSE))
    ELSE IF id = "new_entry"
    THEN (IF w.exists
          THEN Out(Eval(SetFocus(Show(w, okShow), okFocus), okEval),
                   <<Call("show", okShow), Call("set_focus", okFocus),
                     Call("eval", okEval)>>, FALSE, FALSE)
          ELSE Out(w, <<>>, FALSE, FALSE))
    ELSE IF id = "quit" THEN Out(w, <<Call("exit", TRUE)>>, TRUE, FALSE)
    ELSE Out(w, <<>>, FALSE, FALSE)

(* on_tray_icon_event as it would be without the button pattern *)
on_tray_icon_event_any_button(kind, button, state, w, okShow, okFocus) ==
    IF kind = "Click" /\ state = "Up"
    THEN (IF w.exists
          THEN Out(SetFocus(Show(w, okShow), okFocus),
                   <<Call("show", okShow), Call("set_focus", okFocus)>>, FALSE, FALSE)
          ELSE Out(w, <<>>, FALSE, FALSE))
    ELSE Out(w, <<>>, FALSE, FALSE)

(* closure given to .on_tray_icon_event *)
on_tray_icon_event(kind, button, state, w, okShow, okFocus) ==
    IF kind = "Click" /\ button = "Left" /\ state = "Up"
    THEN (IF w.exists
          THEN Out(SetFocus(Show(w, okShow), okFocus),
                   <<Call("show", okShow), Call("set_focus", okFocus)>>, FALSE, FALSE)
          ELSE Out(w, <<>>, FALSE, FALSE))
    ELSE Out(w, <<>>, FALSE, FALSE)

(* closure given to tauri_plugin_global_shortcut::Builder::with_handler *)
shortcut_handler(shortcut_pressed, state, w, okShow, okFocus, okEval) ==
    IF state = "Pressed" /\ shortcut_pressed = ShortcutCombo
    THEN (IF w.exists
          THEN Out(Eval(SetFocus(Show(w, okShow), okFocus), okEval),
                   <<Call("show", okShow), Call("set_focus", okFocus),
                     Call("eval", okEval)>>, FALSE, FALSE)
          ELSE Out(w, <<>>, FALSE, FALSE))
    ELSE Out(w, <<>>, FALSE, FALSE)

(* on_window_event as it would be without api.prevent_close() *)
on_window_event_no_prevent(kind, w, okHide) ==
    IF kind = "CloseRequested"
    THEN Out(Hide(w, okHide), <<Call("hide", okHide)>>, FALSE, FALSE)
    ELSE Out(w, <<>>, FALSE, FALSE)

(* closure given to .on_window_event in run *)
on_window_event(kind, w, okHide) ==
    IF kind = "CloseRequested"
    THEN Out(Hide(w, okHide), <<Call("hide", okHide), Call("prevent_close", TRUE)>>,
             FALSE, TRUE)
    ELSE Out(w, <<>>, FALSE, FALSE)

(* pub fn handle_window_event *)
handle_window_event(kind, w) ==
    IF kind = "CloseRequested"
    THEN Out(w, <<Call("prevent_close", TRUE)>>, FALSE, TRUE)
    ELSE Out(w, <<>>, FALSE, FALSE)

(* What the event loop does once a handler returned: app.exit(0) ends the  *)
(* process; a close request that was not prevented destroys the window,    *)
(* and the loop exits when its last window is gone.                        *)
Dispatch(ev, out) ==
    LET closed == ev.kind = "CloseRequested" /\ ~out.prevented
    IN  /\ event' = ev
        /\ prevWin' = win
        /\ calls' = out.calls
        /\ win' = IF closed
                  THEN [out.win EXCEPT !.exists = FALSE, !.visible = FALSE, !.focused = FALSE]
                  ELSE out.win
        /\ phase' = IF out.exit \/ closed THEN "exited" ELSE phase
        /\ closePrevented' = IF ev.kind = "CloseRequested" THEN out.prevented
                             ELSE closePrevented
        /\ UNCHANGED <<setupIn, trayBuilt, shortcutReady, stderr, cmdVars>>

Ev(h, k, b, s) == [handler |-> h, kind |-> k, button |-> b, state |-> s]

MenuEvent ==
    /\ phase = "running"
    /\ trayBuilt
    /\ \E id \in MenuIds, okShow, okFocus, okEval \in BOOLEAN :
        Dispatch(Ev("on_menu_event", id, "-", "-"),
                 on_menu_event(id, win, okShow, okFocus, okEval))

TrayIconEvent ==
    /\ phase = "running"
    /\ trayBuilt
    /\ \E kind \in TrayKinds, button \in Buttons, state \in ButtonStates,
          okShow, okFocus \in BOOLEAN :
        Dispatch(Ev("on_tray_icon_event", kind, button, state),
                 on_tray_icon_event(kind, button, state, win, okShow, okFocus))

ShortcutEvent ==
    /\ phase = "running"
    /\ shortcutReady
    /\ \E shortcut_pressed \in Shortcuts, state \in ShortcutStates,
          okShow, okFocus, okEval \in BOOLEAN :
        Dispatch(Ev("shortcut_handler", shortcut_pressed, "-", state),
                 shortcut_handler(shortcut_pressed, state, win, okShow, okFocus, okEval))

WindowEvent ==
    /\ phase = "running"
    /\ win.exists
    /\ \E kind \in WindowEvents, okHide \in BOOLEAN :
        Dispatch(Ev("on_window_event", kind, "-", "-"), on_window_event(kind, win, okHide))

(* an embedder routing window events through the public handle_window_event *)
HandleWindowEvent ==
    /\ phase = "running"
    /\ win.exists
    /\ \E kind \in WindowEvents :
        Dispatch(Ev("handle_window_event", kind, "-", "-"), handle_window_event(kind, win))

----------------------------------------------------------------------------
(* check_backend_health *)

Statuses == {200, 204, 299, 300, 404, 500}
Latencies == {1, 6}     \* seconds until the response is complete
NetOutcomes ==
    {[conn |-> c, latency |-> 0, status |-> 0] : c \in {"refused", "silent"}}
    \cup {[conn |-> "replied", latency |-> l, status |-> s] : l \in Latencies, s \in Statuses}
NoOutcome == [conn |-> "-", latency |-> 0, status |-> 0]
NoStatus == [api |-> FALSE, database |-> FALSE, ollama |-> FALSE, message |-> ""]
NoRet == [ok |-> FALSE, value |-> NoStatus, err |-> "-"]

(* client.get(..).timeout(5 s).send().await : Ok(response) or Err(e) *)
Send(o) ==
    IF o.conn = "refused" THEN [ok |-> FALSE, status |-> 0, err |-> "connect"]
    ELSE IF o.conn = "silent" \/ o.latency >= TimeoutSecs
         THEN [ok |-> FALSE, status |-> 0, err |-> "timeout"]
    ELSE [ok |-> TRUE, status |-> o.status, err |-> "-"]

(* is_success as it would be if redirects and 1xx counted: status < 400 *)
is_success_below_400(status) == status < 400

(* StatusCode::is_success *)
is_success(status) == 200 <= status /\ status < 300

(* match .. { Ok(response) => response.status().is_success(), Err(_) => false } *)
Probe(res) == IF res.ok THEN is_success(res.status) ELSE FALSE

(* Message as it would be with the two tests in the other order *)
Message_ollama_first(api, ollama) ==
    IF ~ollama THEN MsgOllamaDown
    ELSE IF ~api THEN MsgBackendDown
    ELSE MsgAllRunning

(* let message = if !api_healthy {..} else if !ollama_healthy {..} else {..} *)
Message(api, ollama) ==
    IF ~api THEN MsgBackendDown
    ELSE IF ~ollama THEN MsgOllamaDown
    ELSE MsgAllRunning

(* HealthStatus as it would be with database taken from the other probe *)
HealthStatus_db_from_ollama(api, ollama) ==
    [api |-> api, database |-> ollama, ollama |-> ollama, message |-> Message(api, ollama)]

(* HealthStatus { api, database, ollama, message } *)
HealthStatus(api, ollama) ==
    [api |-> api, database |-> api, ollama |-> ollama, message |-> Message(api, ollama)]

(* HealthResult as it would be if a backend that is down were an error *)
HealthResult_err_when_down(api, ollama) ==
    IF api THEN [ok |-> TRUE, value |-> HealthStatus(api, ollama), err |-> "-"]
    ELSE [ok |-> FALSE, value |-> NoStatus, err |-> MsgBackendDown]

(* the value the command returns: Ok(HealthStatus {..}) *)
HealthResult(api, ollama) ==
    [ok |-> TRUE, value |-> HealthStatus(api, ollama), err |-> "-"]

HealthInvoke ==
    /\ phase = "running"
    /\ hpc \in {"idle", "returned"}
    /\ hpc' = "probe_api"
    /\ apiOutcome' = NoOutcome
    /\ ollamaOutcome' = NoOutcome
    /\ api_healthy' = FALSE
    /\ ollama_healthy' = FALSE
    /\ probesIssued' = <<>>
    /\ healthRet' = NoRet
    /\ UNCHANGED <<shellVars, urlRet, notifRet>>

HealthProbeApi ==
    /\ hpc = "probe_api"
    /\ \E o \in NetOutcomes :
        /\ apiOutcome' = o
        /\ api_healthy' = Probe(Send(o))
    /\ probesIssued' = Append(probesIssued, ApiUrl)
    /\ hpc' = "probe_ollama"
    /\ UNCHANGED <<shellVars, ollamaOutcome, ollama_healthy, healthRet, urlRet, notifRet>>

HealthProbeOllama ==
    /\ hpc = "probe_ollama"
    /\ \E o \in NetOutcomes :
        /\ ollamaOutcome' = o
        /\ ollama_healthy' = Probe(Send(o))
    /\ probesIssued' = Append(probesIssued, OllamaUrl)
    /\ hpc' = "synthesize"
    /\ UNCHANGED <<shellVars, apiOutcome, api_healthy, healthRet, urlRet, notifRet>>

HealthReturn ==
    /\ hpc = "synthesize"
    /\ healthRet' = HealthResult(api_healthy, ollama_healthy)
    /\ hpc' = "returned"
    /\ UNCHANGED <<shellVars, apiOutcome, ollamaOutcome, api_healthy, ollama_healthy,
                   probesIssued, urlRet, notifRet>>

----------------------------------------------------------------------------
(* open_external_url and show_notification *)

Urls == {"https://example.com/docs", "not a url", "htp:/bad", ""}
OsOutcomes == {"ok", "NotFound", "LauncherFailed"}
NoUrlRet == [called |-> FALSE, url |-> "-", passed |-> "-", os |-> "-", ok |-> FALSE, err |-> "-"]
NoNotifRet == [called |-> FALSE, ok |-> FALSE, err |-> "-"]

(* e.to_string() of the error the OS integration reports *)
to_string(e) ==
    IF e = "NotFound" THEN "No such file or directory (os error 2)"
    ELSE IF e = "LauncherFailed" THEN "Launcher failed with exit status 4"
    ELSE "notification backend unavailable"

(* open_external_url as it would be with the result of open::that dropped *)
open_external_url_ignoring(url, os) ==
    [called |-> TRUE, url |-> url, passed |-> url, os |-> os, ok |-> TRUE, err |-> "-"]

(* open::that(&url).map_err(|e| e.to_string()) *)
open_external_url(url, os) ==
    [called |-> TRUE, url |-> url, passed |-> url, os |-> os,
     ok |-> (os = "ok"), err |-> IF os = "ok" THEN "-" ELSE to_string(os)]

(* app.notification().builder().title(..).body(..).show().map_err(|e| e.to_string()) *)
show_notification(os) ==
    [called |-> TRUE, ok |-> (os = "ok"), err |-> IF os = "ok" THEN "-" ELSE to_string(os)]

OpenExternalUrl ==
    /\ phase = "running"
    /\ \E url \in Urls, os \in OsOutcomes : urlRet' = open_external_url(url, os)
    /\ UNCHANGED <<shellVars, healthVars, notifRet>>

ShowNotification ==
    /\ phase = "running"
    /\ \E os \in {"ok", "Unavailable"} : notifRet' = show_notification(os)
    /\ UNCHANGED <<shellVars, healthVars, urlRet>>

----------------------------------------------------------------------------
(* Specifications *)

Windows ==
    {w \in [exists : BOOLEAN, visible : BOOLEAN, focused : BOOLEAN, location : Locations] :
        /\ w.focused => w.visible
        /\ ~w.exists => (~w.visible /\ w.location = "/")}

Init ==
    /\ phase = "setup"
    /\ setupIn = [tray |-> "-", plugin |-> FALSE, register |-> FALSE]
    /\ trayBuilt = FALSE
    /\ shortcutReady = FALSE
    /\ stderr = {}
    /\ win \in Windows
    /\ prevWin = win
    /\ event = NoEvent
    /\ calls = <<>>
    /\ closePrevented = FALSE
    /\ hpc = "idle"
    /\ apiOutcome = NoOutcome
    /\ ollamaOutcome = NoOutcome
    /\ api_healthy = FALSE
    /\ ollama_healthy = FALSE
    /\ probesIssued = <<>>
    /\ healthRet = NoRet
    /\ urlRet = NoUrlRet
    /\ notifRet = NoNotifRet

(* the shell: startup and the event routers *)
Next ==
    \/ run_setup
    \/ MenuEvent
    \/ TrayIconEvent
    \/ ShortcutEvent
    \/ WindowEvent
    \/ HandleWindowEvent

Spec == Init /\ [][Next]_vars

(* the commands the webview invokes on a started application *)
NextCmd ==
    \/ run_setup
    \/ HealthInvoke
    \/ HealthProbeApi
    \/ HealthProbeOllama
    \/ HealthReturn
    \/ OpenExternalUrl
    \/ ShowNotification

SpecCmd == Init /\ [][NextCmd]_vars

----------------------------------------------------------------------------
(* Properties *)

Returned == hpc = "returned"
SetupDone == phase # "setup"
Completed2xx(o) ==
    /\ o.conn = "replied" /\ o.latency < TimeoutSecs
    /\ o.status \in 200..299
IsReveal(ev) ==
    \/ ev.handler = "on_menu_event" /\ ev.kind \in {"open", "new_entry"}
    \/ ev.handler = "on_tray_icon_event" /\ ev.kind = "Click"
                                         /\ ev.button = "Left" /\ ev.state = "Up"
    \/ ev.handler = "shortcut_handler" /\ ev.kind = ShortcutCombo /\ ev.state = "Pressed"

(* C1: the returned HealthStatus follows the ordered precedence: primary   *)
(* probe false => api and database false and the backend-down message,     *)
(* whatever the secondary; else secondary false => api, database true,     *)
(* ollama false and the degraded message; else all true and the all-running*)
(* message.  ollama always equals the secondary probe's outcome.           *)
C1_Precedence ==
    Returned =>
        LET v == healthRet.value
            primary == Probe(Send(apiOutcome))
            secondary == Probe(Send(ollamaOutcome))
        IN  /\ healthRet.ok
            /\ ~primary => /\ ~v.api /\ ~v.database
                           /\ v.message = MsgBackendDown
            /\ (primary /\ ~secondary) => /\ v.api /\ v.database /\ ~v.ollama
                                          /\ v.message = MsgOllamaDown
            /\ (primary /\ secondary) => /\ v.api /\ v.database /\ v.ollama
                                         /\ v.message = MsgAllRunning
            /\ v.ollama = secondary
C1_Witness ==
    /\ Returned
    /\ ~Probe(Send(apiOutcome)) /\ Probe(Send(ollamaOutcome))
    /\ healthRet.value.message = MsgBackendDown /\ healthRet.value.ollama

(* C2: in every produced HealthStatus database equals api, and the         *)
(* invocation sent no request besides the two probes.                      *)
C2_DatabaseMirrorsApi ==
    Returned => /\ healthRet.value.database = healthRet.value.api
                /\ Len(probesIssued) = 2
                /\ \A i \in 1..Len(probesIssued) : probesIssued[i] \in {ApiUrl, OllamaUrl}
C2_Witness ==
    /\ Returned
    /\ healthRet.value.api /\ healthRet.value.database /\ ~healthRet.value.ollama

(* C3: a probe is true iff the request completed within the timeout with a *)
(* status in 200..299; timeout, refusal and a non-success status all give  *)
(* false.                                                                  *)
C3_ProbeTrueIffSuccess ==
    /\ hpc \in {"probe_ollama", "synthesize", "returned"}
            => api_healthy = Completed2xx(apiOutcome)
    /\ hpc \in {"synthesize", "returned"}
            => ollama_healthy = Completed2xx(ollamaOutcome)
    /\ Returned => /\ healthRet.value.api = Completed2xx(apiOutcome)
                   /\ healthRet.value.ollama = Completed2xx(ollamaOutcome)
C3_Witness ==
    /\ Returned
    /\ apiOutcome.conn = "silent" /\ ~healthRet.value.api
    /\ ollamaOutcome.conn = "replied" /\ ollamaOutcome.status = 500
    /\ ollamaOutcome.latency < TimeoutSecs /\ ~healthRet.value.ollama

(* C4: the command always returns Ok, and a failed primary probe does not  *)
(* keep the secondary probe from being sent and reported.                  *)
C4_NeverFails ==
    Returned => /\ healthRet.ok
                /\ healthRet.err = "-"
                /\ probesIssued = <<ApiUrl, OllamaUrl>>
                /\ ollamaOutcome \in NetOutcomes
                /\ healthRet.value.ollama = ollama_healthy
C4_Witness ==
    /\ Returned
    /\ ~Send(apiOutcome).ok
    /\ Send(ollamaOutcome).ok /\ healthRet.ok /\ healthRet.value.ollama

(* C5: a close request never ends the process; a started process ends only *)
(* through the "quit" menu item.                                           *)
C5_OnlyQuitTerminates ==
    /\ phase = "exited" => event = Ev("on_menu_event", "quit", "-", "-")
    /\ event.kind = "CloseRequested" => /\ phase = "running"
                                        /\ win.exists
                                        /\ closePrevented
    /\ event # NoEvent => phase \in {"running", "exited"}
C5_Witness ==
    /\ event = Ev("on_window_event", "CloseRequested", "-", "-")
    /\ phase = "running" /\ win.exists /\ ~win.visible

(* C6 (as claimed): a failure of the tray construction or of the shortcut  *)
(* setup is logged and the application still starts.                       *)
C6_SetupFailuresDoNotAbort ==
    (SetupDone /\ (setupIn.tray = "Err" \/ ~setupIn.plugin \/ ~setupIn.register))
        => /\ phase # "panicked"
           /\ setupIn.tray = "Err" => MsgTrayFailed \in stderr

(* C7 (as claimed): both close-request handlers hide the window and        *)
(* prevent the close on CloseRequested and do nothing on any other event.  *)
C7_EveryCloseHandlerHides ==
    event.handler \in {"on_window_event", "handle_window_event"} =>
        IF event.kind = "CloseRequested"
        THEN /\ Ops(calls) = <<"hide", "prevent_close">>
             /\ closePrevented
             /\ win.exists
             /\ calls[1].ok => ~win.visible
        ELSE calls = <<>> /\ win = prevWin

(* C8: open_external_url hands the url unchanged to the OS, returns Err    *)
(* with the reason string exactly when the OS call fails and Ok otherwise, *)
(* and the process keeps running.                                          *)
C8_OpenUrlResult ==
    urlRet.called =>
        /\ urlRet.passed = urlRet.url
        /\ urlRet.ok <=> urlRet.os = "ok"
        /\ ~urlRet.ok => urlRet.err = to_string(urlRet.os) /\ urlRet.err # "-"
        /\ urlRet.ok => urlRet.err = "-"
        /\ phase = "running"
C8_Witness ==
    /\ urlRet.called /\ urlRet.url = "not a url" /\ urlRet.passed = "not a url"
    /\ ~urlRet.ok /\ urlRet.err = "Launcher failed with exit status 4"
    /\ phase = "running"

(* C9: the menu router: "open" = show, set_focus; "new_entry" = show,      *)
(* set_focus, eval to /new; "quit" ends the process; any other id, and     *)
(* "open"/"new_entry" without a main window, change nothing; a failing     *)
(* call is ignored and the following calls are still made.                 *)
C9_MenuRouter ==
    event.handler = "on_menu_event" =>
        IF event.kind \in {"open", "new_entry"} /\ prevWin.exists
        THEN /\ phase = "running"
             /\ Ops(calls) = IF event.kind = "open" THEN <<"show", "set_focus">>
                             ELSE <<"show", "set_focus", "eval">>
             /\ win.exists
             /\ win.visible = (calls[1].ok \/ prevWin.visible)
             /\ win.focused = (calls[2].ok \/ prevWin.focused)
             /\ win.location = IF event.kind = "new_entry" /\ calls[3].ok
                               THEN NewEntryHref ELSE prevWin.location
        ELSE IF event.kind = "quit"
        THEN phase = "exited" /\ win = prevWin
        ELSE phase = "running" /\ win = prevWin /\ calls = <<>>
C9_Witness ==
    /\ event = Ev("on_menu_event", "new_entry", "-", "-")
    /\ prevWin.exists /\ ~prevWin.visible /\ prevWin.location # NewEntryHref
    /\ ~calls[1].ok /\ calls[2].ok /\ calls[3].ok
    /\ ~win.visible /\ win.focused /\ win.location = NewEntryHref

(* C10: with the main window present and the framework calls succeeding,   *)
(* the last routed event decides visibility: hidden after a close request, *)
(* visible and focused after a reveal event; other tray clicks and other   *)
(* shortcut events leave it as it was.                                     *)
C10_LastEventDecidesVisibility ==
    (prevWin.exists /\ AllOk(calls)) =>
        /\ event = Ev("on_window_event", "CloseRequested", "-", "-") => ~win.visible
        /\ IsReveal(event) => win.visible /\ win.focused
        /\ (event.handler \in {"on_tray_icon_event", "shortcut_handler"} /\ ~IsReveal(event))
                => win = prevWin
C10_Witness ==
    /\ closePrevented
    /\ prevWin.exists /\ ~prevWin.visible
    /\ event = Ev("on_tray_icon_event", "Click", "Left", "Up")
    /\ AllOk(calls) /\ win.visible /\ win.focused
====
